---- MODULE Spec2Model ----
(***************************************************************************)
(* Model of app.py (Test Permiso): a Streamlit script that loads a bank of *)
(* multiple-choice questions from preguntas.csv, assembles a 20-question   *)
(* exam by per-topic sampling, walks the user through it and grades it.    *)
(*                                                                         *)
(* Streamlit runs the whole script top to bottom once per user event, and  *)
(* st.rerun() restarts it at once.  An action of this model is one user    *)
(* event together with every script run it causes; the variables are       *)
(* st.session_state, the file on disk and the page the last run rendered.  *)
(*                                                                         *)
(* Text is modelled as a sequence of one-character strings so that         *)
(* str.strip and str.upper are computed and not assumed.                   *)
(***************************************************************************)
EXTENDS Integers, Sequences, FiniteSets, TLC

VARIABLES
    csv,      \* what pd.read_csv would find at CSV_FILENAME
    exam,     \* st.session_state.exam   : None or the list of question dicts
    idx,      \* st.session_state.idx
    answers,  \* st.session_state.answers: dict  index -> key
    page,     \* what the last script run rendered
    last,     \* the user event the last script run handled (history)
    visited   \* the indices displayed since the exam was stored (history)

vars == <<csv, exam, idx, answers, page, last, visited>>

(***************************************************************************)
(* Bounds of the model.                                                    *)
(***************************************************************************)
MaxSelIdx == 1      \* the user picks options on the first MaxSelIdx questions
                    \* and on the last one; the others keep the preselection
MaxShuffles == 2    \* outcomes of random.shuffle that are enumerated
MaxExtra == 1       \* rows a generated bank has beyond the quota table
MaxEditHad == 2     \* answers recorded when a file of LoadFiles is replaced

(***************************************************************************)
(* Program constants.                                                      *)
(***************************************************************************)
PASS_SCORE == 16
EXAM_SIZE == 20
NumTopics == 7

\* mutant: a quota table with 3 rows for topic 3
TOPIC_DISTRIBUTION_3 == <<3, 3, 3, 3, 3, 3, 3>>

\* TOPIC_DISTRIBUTION: topic -> quota; a dict iterates in insertion order 1..7.
TOPIC_DISTRIBUTION == <<3, 3, 2, 3, 3, 3, 3>>

keys == <<"A", "B", "C">>

required == <<"tema", "enunciado", "A", "B", "C", "correcta">>

(***************************************************************************)
(* Python values.                                                          *)
(***************************************************************************)
None == <<>>
Some(x) == <<x>>
IsNone(o) == o = <<>>
Val(o) == o[1]

Range(s) == {s[i] : i \in DOMAIN s}

\* mutant: a missing entry read as "A"
Get_A(d, i) == IF i \in DOMAIN d THEN d[i] ELSE "A"

\* dict.get(i) on the answers dict: the string "None" stands for Python's None.
Get(d, i) == IF i \in DOMAIN d THEN d[i] ELSE "None"

\* d[i] = v on a dict.
Put(d, i, v) == [j \in (DOMAIN d) \cup {i} |-> IF j = i THEN v ELSE d[j]]

EmptyDict == <<>>

\* lst[i] on a Python list held as a 1-based sequence: valid for -len <= i < len.
InRange(lst, i) == (-Len(lst) <= i) /\ (i < Len(lst))
At(lst, i) == IF i >= 0 THEN lst[i + 1] ELSE lst[Len(lst) + i + 1]

(***************************************************************************)
(* str methods on character sequences.                                     *)
(***************************************************************************)
SetMin(S) == CHOOSE x \in S : \A y \in S : x <= y
SetMax(S) == CHOOSE x \in S : \A y \in S : x >= y

strip(s) ==
    LET ink == {i \in DOMAIN s : s[i] # " "}
    IN  IF ink = {} THEN <<>> ELSE SubSeq(s, SetMin(ink), SetMax(ink))

UpperChar(c) ==
    CASE c = "a" -> "A"
      [] c = "b" -> "B"
      [] c = "c" -> "C"
      [] c = "d" -> "D"
      [] OTHER -> c

upper(s) == [i \in DOMAIN s |-> UpperChar(s[i])]

Digits == <<"1", "2", "3", "4", "5", "6", "7", "8", "9">>

\* str(i) for 1 <= i <= 9
str(i) == <<Digits[i]>>

\* int(s) for a one-digit text
int(s) == CHOOSE i \in DOMAIN Digits : s = <<Digits[i]>>

(***************************************************************************)
(* The file read by pd.read_csv(path, sep=";", dtype=str).fillna(""):      *)
(* [exists, columns, rows], a row mapping each column to its text.  An     *)
(* empty cell is the empty text.                                           *)
(***************************************************************************)
Raise(msg) == [ok |-> FALSE, df |-> <<>>, err |-> msg]

\* mutant: rows with an empty statement or option are dropped, the rest
\* returned
load_questions_drop(f) ==
    IF ~f.exists THEN Raise("FileNotFoundError")
    ELSE
    LET missing == SelectSeq(required, LAMBDA c : c \notin f.columns)
    IN  IF missing # <<>> THEN Raise("Faltan columnas")
        ELSE
        LET df == [i \in DOMAIN f.rows |->
                     [f.rows[i] EXCEPT !.tema = strip(@),
                                       !.correcta = upper(strip(@))]]
        IN  IF ~({df[i].tema : i \in DOMAIN df}
                    \subseteq {str(t) : t \in 1..NumTopics})
            THEN Raise("Hay temas invalidos")
            ELSE IF ~({df[i].correcta : i \in DOMAIN df}
                         \subseteq {<<"A">>, <<"B">>, <<"C">>})
            THEN Raise("correcta debe ser A/B/C")
            ELSE [ok |-> TRUE,
                  df |-> SelectSeq(df, LAMBDA r :
                                  /\ strip(r.enunciado) # <<>>
                                  /\ strip(r.A) # <<>>
                                  /\ strip(r.B) # <<>>
                                  /\ strip(r.C) # <<>>),
                  err |-> ""]

load_questions(f) ==
    IF ~f.exists THEN Raise("FileNotFoundError")
    ELSE
    LET missing == SelectSeq(required, LAMBDA c : c \notin f.columns)
    IN  IF missing # <<>> THEN Raise("Faltan columnas")
        ELSE
        LET df == [i \in DOMAIN f.rows |->
                     [f.rows[i] EXCEPT !.tema = strip(@),
                                       !.correcta = upper(strip(@))]]
            bad == {i \in DOMAIN df :
                       \/ strip(df[i].enunciado) = <<>>
                       \/ strip(df[i].A) = <<>>
                       \/ strip(df[i].B) = <<>>
                       \/ strip(df[i].C) = <<>>}
        IN  IF ~({df[i].tema : i \in DOMAIN df}
                    \subseteq {str(t) : t \in 1..NumTopics})
            THEN Raise("Hay temas invalidos")
            ELSE IF ~({df[i].correcta : i \in DOMAIN df}
                         \subseteq {<<"A">>, <<"B">>, <<"C">>})
            THEN Raise("correcta debe ser A/B/C")
            ELSE IF Cardinality(bad) > 0
            THEN Raise("Hay filas con enunciado u opciones vacias")
            ELSE [ok |-> TRUE, df |-> df, err |-> ""]

(***************************************************************************)
(* The files the model puts on disk.  Bank(counts) has counts[t] rows of   *)
(* topic t; some cells carry blanks or lower case, which load_questions    *)
(* normalises; three rows in four have the correct key A.                  *)
(***************************************************************************)
RECURSIVE SumTo(_, _)
SumTo(c, t) == IF t = 0 THEN 0 ELSE c[t] + SumTo(c, t - 1)

\* the topic of the r-th row (1-based) of Bank(counts)
TopicOfRow(counts, r) ==
    CHOOSE t \in DOMAIN counts : SumTo(counts, t - 1) < r /\ r <= SumTo(counts, t)

RawKey(r) ==
    IF r % 4 # 3 THEN <<"A">>
    ELSE IF r % 8 = 3 THEN <<" ", "b">> ELSE <<"c", " ">>

MkRow(t, r) ==
    [tema      |-> IF r % 5 = 0 THEN <<" ", Digits[t], " ">> ELSE <<Digits[t]>>,
     enunciado |-> <<"q", Digits[(r % 9) + 1]>>,
     A         |-> <<"x">>,
     B         |-> <<"y">>,
     C         |-> <<"z">>,
     correcta  |-> RawKey(r)]

Bank(counts) ==
    [exists  |-> TRUE,
     columns |-> Range(required),
     rows    |-> [r \in 1..SumTo(counts, Len(counts)) |->
                     MkRow(TopicOfRow(counts, r), r - 1)]]

\* the quota table as the specification states it
QuotaTable == <<3, 3, 2, 3, 3, 3, 3>>

Minimal == Bank(QuotaTable)
Deficient == Bank([QuotaTable EXCEPT ![3] = 1])
Missing == [exists |-> FALSE, columns |-> {}, rows |-> <<>>]
BadTopic == [Minimal EXCEPT !.rows[1].tema = <<"8">>]

Files == {Minimal, Deficient, BadTopic}

\* files on which load_questions raises, one for each raise of lines 16-41,
\* and files it accepts: blanks around the topic and the key, a lower-case
\* key, a seventh column, no rows
NoColumn == [Minimal EXCEPT !.columns = @ \ {"correcta"}]
BadKey == [Minimal EXCEPT !.rows[2].correcta = <<"D">>]
BlankKey == [Minimal EXCEPT !.rows[2].correcta = <<" ">>]
EmptyField == [Minimal EXCEPT !.rows[5].B = <<" ">>]
EmptyStatement == [Minimal EXCEPT !.rows[20].enunciado = <<>>]
ExtraColumn == [Minimal EXCEPT !.columns = @ \cup {"nota"}]
NoRows == [Minimal EXCEPT !.rows = <<>>]

BadFiles == {Missing, NoColumn, BadTopic, BadKey, BlankKey, EmptyField,
             EmptyStatement}
LoadFiles == BadFiles \cup {Minimal, ExtraColumn, NoRows}

RECURSIVE Vary(_)
\* the row counts that differ from the quota table in at most n topics, by one
Vary(n) ==
    IF n = 0 THEN {QuotaTable}
    ELSE Vary(n - 1) \cup
         {[c EXCEPT ![t] = QuotaTable[t] + d] :
             c \in Vary(n - 1), t \in DOMAIN QuotaTable, d \in {-1, 1}}

\* banks within MaxExtra rows of the quota table, topic by topic
GenCounts == Vary(MaxExtra)

GenFiles == {Bank(c) : c \in GenCounts}

\* load_questions(f) for the files of the model, evaluated once per file
AllFiles == Files \cup GenFiles \cup LoadFiles
Loaded == [f \in AllFiles |-> load_questions(f)]

(***************************************************************************)
(* generate_exam.  The random outcomes are inputs: pick[t] is the set of   *)
(* rows pool.sample draws for topic t, k names the outcome of              *)
(* random.shuffle.  Rows are named by their position in the DataFrame.     *)
(***************************************************************************)
\* df[df["tema"] == str(topic)]: the rows of the topic, in DataFrame order
pool(df, topic) == SelectSeq([i \in DOMAIN df |-> i],
                             LAMBDA i : df[i].tema = str(topic))

\* The outcomes of pool.sample(n=n, replace=False) that are enumerated: every
\* n-subset of the pool.  (A pool that is too small is never sampled.)
Samples(df, topic) ==
    LET p == Range(pool(df, topic))
        n == TOPIC_DISTRIBUTION[topic]
    IN  IF Cardinality(p) < n THEN {{}}
        ELSE {S \in SUBSET p : Cardinality(S) = n}

\* mutant: replace=True, every draw hitting the same row
sample_replace(p, S) == [j \in 1..Cardinality(S) |-> SetMin(S)]

\* pool.sample(...): the drawn rows S as a sequence, here in DataFrame order
\* (the order within a sample is shuffled again by random.shuffle).
sample(p, S) == SelectSeq(p, LAMBDA i : i \in S)

\* One dict appended per sampled row (lines 53-59); row is the index label
\* that iterrows yields, kept as the record's provenance.
Question(df, i) ==
    [row       |-> i - 1,
     tema      |-> int(df[i].tema),
     enunciado |-> df[i].enunciado,
     opciones  |-> [A |-> df[i].A, B |-> df[i].B, C |-> df[i].C],
     correcta  |-> df[i].correcta[1]]

\* random.shuffle(exam): outcome k is the rotation by 7k places.
shuffle(lst, k) ==
    LET n == Len(lst)
    IN  [i \in 1..n |-> lst[((i - 1 + 7 * k) % n) + 1]]

RECURSIVE TopicLoop_le(_, _, _, _)
\* mutant: the pool test written len(pool) <= n
TopicLoop_le(df, pick, t, acc) ==
    IF t > Len(TOPIC_DISTRIBUTION) THEN [ok |-> TRUE, exam |-> acc,
                                         topic |-> 0, need |-> 0, have |-> 0]
    ELSE
    LET p == pool(df, t)
        n == TOPIC_DISTRIBUTION[t]
    IN  IF Len(p) <= n
        THEN [ok |-> FALSE, exam |-> <<>>,
              topic |-> t, need |-> n, have |-> Len(p)]
        ELSE LET smp == sample(p, pick[t])
             IN  TopicLoop_le(df, pick, t + 1,
                           acc \o [j \in DOMAIN smp |-> Question(df, smp[j])])

RECURSIVE TopicLoop(_, _, _, _)
\* the for loop of lines 48-59 from topic t on, acc the exam so far
TopicLoop(df, pick, t, acc) ==
    IF t > Len(TOPIC_DISTRIBUTION) THEN [ok |-> TRUE, exam |-> acc,
                                         topic |-> 0, need |-> 0, have |-> 0]
    ELSE
    LET p == pool(df, t)
        n == TOPIC_DISTRIBUTION[t]
    IN  IF Len(p) < n
        THEN [ok |-> FALSE, exam |-> <<>>,
              topic |-> t, need |-> n, have |-> Len(p)]
        ELSE LET smp == sample(p, pick[t])
             IN  TopicLoop(df, pick, t + 1,
                           acc \o [j \in DOMAIN smp |-> Question(df, smp[j])])

generate_exam(df, pick, k) ==
    LET r == TopicLoop(df, pick, 1, <<>>)
    IN  IF r.ok THEN [r EXCEPT !.exam = shuffle(@, k)] ELSE r

\* a run that does not call generate_exam
NoGen == [ok |-> FALSE, exam |-> <<>>, topic |-> 0, need |-> 0, have |-> 0]

\* the outcomes of pool.sample for topic t on the bank loaded from f
SamplesFor(f, t) ==
    IF Loaded[f].ok THEN Samples(Loaded[f].df, t) ELSE {{}}

\* what generate_exam(df) can do on the bank loaded from f: one outcome per
\* enumerated outcome of the seven pool.sample calls and of random.shuffle
Outcomes(f) ==
    {generate_exam(Loaded[f].df, <<p1, p2, p3, p4, p5, p6, p7>>, k) :
        p1 \in SamplesFor(f, 1), p2 \in SamplesFor(f, 2),
        p3 \in SamplesFor(f, 3), p4 \in SamplesFor(f, 4),
        p5 \in SamplesFor(f, 5), p6 \in SamplesFor(f, 6),
        p7 \in SamplesFor(f, 7), k \in 0..(MaxShuffles - 1)}

\* Outcomes(f) for the files of the model, evaluated once per file
GenTable == [f \in AllFiles |-> IF Loaded[f].ok THEN Outcomes(f) ELSE {NoGen}]

(***************************************************************************)
(* Grading: the handler of "Finalizar y corregir" (lines 142-171).         *)
(***************************************************************************)
RECURSIVE CountLoop(_, _, _, _)
\* lines 144-150 from index i on; c = <<correct, wrong>>
CountLoop(ex, ans, i, c) ==
    IF i >= Len(ex) THEN c
    ELSE IF Get(ans, i) = ex[i + 1].correcta
         THEN CountLoop(ex, ans, i + 1, <<c[1] + 1, c[2]>>)
         ELSE CountLoop(ex, ans, i + 1, <<c[1], c[2] + 1>>)

RECURSIVE ReviewLoop_answered(_, _, _, _)
\* mutant: questions without a recorded answer are left out of the review
ReviewLoop_answered(ex, ans, i, acc) ==
    IF i >= Len(ex) THEN acc
    ELSE LET a == Get(ans, i)
             qq == ex[i + 1]
         IN  IF a # "None" /\ a # qq.correcta
             THEN ReviewLoop_answered(ex, ans, i + 1,
                             Append(acc, [num       |-> i + 1,
                                          tema      |-> qq.tema,
                                          enunciado |-> qq.enunciado,
                                          opciones  |-> qq.opciones,
                                          tu        |-> a,
                                          correcta  |-> qq.correcta]))
             ELSE ReviewLoop_answered(ex, ans, i + 1, acc)

RECURSIVE ReviewLoop(_, _, _, _)
\* lines 162-171 from index i on: one expander per missed question
ReviewLoop(ex, ans, i, acc) ==
    IF i >= Len(ex) THEN acc
    ELSE LET a == Get(ans, i)
             qq == ex[i + 1]
         IN  IF a # qq.correcta
             THEN ReviewLoop(ex, ans, i + 1,
                             Append(acc, [num       |-> i + 1,
                                          tema      |-> qq.tema,
                                          enunciado |-> qq.enunciado,
                                          opciones  |-> qq.opciones,
                                          tu        |-> a,
                                          correcta  |-> qq.correcta]))
             ELSE ReviewLoop(ex, ans, i + 1, acc)

\* mutant: the pass mark compared with > instead of >=
grade_gt(ex, ans) ==
    LET c == CountLoop(ex, ans, 0, <<0, 0>>)
    IN  [correct |-> c[1],
         wrong   |-> c[2],
         verdict |-> IF c[1] > PASS_SCORE THEN "APROBADO" ELSE "SUSPENSO",
         review  |-> ReviewLoop(ex, ans, 0, <<>>)]

\* the handler of lines 143-171 as a function of the exam and the answers
grade(ex, ans) ==
    LET c == CountLoop(ex, ans, 0, <<0, 0>>)
    IN  [correct |-> c[1],
         wrong   |-> c[2],
         verdict |-> IF c[1] >= PASS_SCORE THEN "APROBADO" ELSE "SUSPENSO",
         review  |-> ReviewLoop(ex, ans, 0, <<>>)]

(***************************************************************************)
(* One run of the script (lines 79-171) on session state s, handling the   *)
(* user event e with the file f on disk.                                   *)
(* st.rerun() restarts the script with no event; st.stop() ends the run.   *)
(***************************************************************************)
NoEvent == [kind |-> "rerun", key |-> "None"]
Event(kind) == [kind |-> kind, key |-> "None"]

\* The page a run renders: which part of the script it reached (view), whether
\* the st.error of line 102 is on it (generr), the option the radio shows as
\* selected (sel) and the result block of lines 152-171 (result).
Page(view, generr, sel, result) ==
    [view |-> view, generr |-> generr, sel |-> sel, result |-> result]

\* ensure_state on a new session (lines 64-70)
ensure_state == [exam |-> None, idx |-> 0, answers |-> EmptyDict]

\* mutant: reset that clears the exam only
reset_exam_only(s) == [exam |-> None, idx |-> s.idx, answers |-> s.answers]

\* reset (lines 73-76)
reset(s) == [exam |-> None, idx |-> 0, answers |-> EmptyDict]

\* mutant: the handler without idx = 0
SetExam_keepidx(s, ex) == [exam |-> Some(ex), idx |-> s.idx, answers |-> EmptyDict]

\* mutant: the handler without answers = {}
SetExam_keep(s, ex) == [exam |-> Some(ex), idx |-> 0, answers |-> s.answers]

\* the three assignments of the Generar handler (lines 97-99)
SetExam(s, ex) == [exam |-> Some(ex), idx |-> 0, answers |-> EmptyDict]

\* mutant: idx and answers cleared before generate_exam is called
OnGenerate_early(s, gen) ==
    IF gen.ok THEN [exam |-> Some(gen.exam), idx |-> 0, answers |-> EmptyDict]
    ELSE [s EXCEPT !.idx = 0, !.answers = EmptyDict]

\* the try/except of the Generar handler (lines 96-102): generate_exam raises
\* before any assignment is made
OnGenerate(s, gen) == IF gen.ok THEN SetExam(s, gen.exam) ELSE s

\* mutants: Anterior never disabled; Siguiente disabled one question late
PrevDisabled_never(i) == FALSE
NextDisabled_late(i) == i = EXAM_SIZE

\* disabled= of the two navigation buttons (lines 132, 137)
PrevDisabled(i) == i = 0

NextDisabled(i) == i = EXAM_SIZE - 1

\* mutant: the recorded answer is not used as the preselection
default_index_zero(current) == 0

\* mutant: the preselection is one option past the recorded answer
default_index_next(current) ==
    IF current \in Range(keys)
    THEN (CHOOSE j \in DOMAIN keys : keys[j] = current) % Len(keys)
    ELSE 0

\* keys.index(current) if current in keys else 0 (line 124)
default_index(current) ==
    IF current \in Range(keys)
    THEN (CHOOSE j \in DOMAIN keys : keys[j] = current) - 1
    ELSE 0

\* mutant: the user's pick is dropped
radio_default(e, index) == keys[index + 1]

\* st.radio (line 126) returns the option selected on the page: the one the
\* user picked, when this run handles a pick, and the preselected one at
\* index otherwise.  A "select" event is a run in which it returns e.key.
radio(e, index) == IF e.kind = "select" THEN e.key ELSE keys[index + 1]

\* mutant: index=0 passed to the radio when no pick is handled
Display_first(s, e) ==
    [s EXCEPT !.answers = Put(@, s.idx, radio(e, 0))]

\* mutant: index=None passed to the radio of a question without a recorded
\* answer, which then returns None
Display_none(s, e) ==
    LET current == Get(s.answers, s.idx)
        choice  == IF e.kind = "select" \/ current \in Range(keys)
                   THEN radio(e, default_index(current))
                   ELSE "None"
    IN  [s EXCEPT !.answers = Put(@, s.idx, choice)]

\* mutant: the exam is shuffled again when a question is displayed
Display_shuffle(s, e) ==
    LET current == Get(s.answers, s.idx)
        choice  == radio(e, default_index(current))
    IN  [s EXCEPT !.answers = Put(@, s.idx, choice),
                  !.exam = Some(shuffle(Val(@), 1))]

\* lines 123-127: the session after the question at s.idx is displayed
Display(s, e) ==
    LET current == Get(s.answers, s.idx)
        choice  == radio(e, default_index(current))
    IN  [s EXCEPT !.answers = Put(@, s.idx, choice)]

RECURSIVE Script(_, _, _, _), Below(_, _, _, _, _)

\* mutant: the Reiniciar button handled above the load
Script_above(s, e, f, gen) ==
    IF e.kind = "reset" THEN Script(reset(s), NoEvent, f, gen)
    ELSE IF ~Loaded[f].ok
    THEN [s |-> s, page |-> Page("loaderror", FALSE, "None", None)]
    ELSE IF e.kind = "generate"
    THEN IF gen.ok
         THEN Script(OnGenerate(s, gen), NoEvent, f, gen)
         ELSE Below(OnGenerate(s, gen), e, TRUE, f, gen)
    ELSE Below(s, e, FALSE, f, gen)

\* lines 79-102: the load, and the column of the Generar button; gen is what
\* generate_exam(df) does in this run, one of Outcomes(f)
Script(s, e, f, gen) ==
    IF ~Loaded[f].ok
    THEN [s |-> s, page |-> Page("loaderror", FALSE, "None", None)]
    ELSE IF e.kind = "generate"
    THEN IF gen.ok
         THEN Script(OnGenerate(s, gen), NoEvent, f, gen)
         ELSE Below(OnGenerate(s, gen), e, TRUE, f, gen)
    ELSE Below(s, e, FALSE, f, gen)

\* lines 104-171: the Reiniciar button and the question; generr tells whether
\* the st.error of line 102 is on the page
Below(s, e, generr, f, gen) ==
    IF e.kind = "reset" THEN Script(reset(s), NoEvent, f, gen)
    ELSE IF IsNone(s.exam)
    THEN [s |-> s, page |-> Page("info", generr, "None", None)]
    ELSE IF ~InRange(Val(s.exam), s.idx)
    THEN [s |-> s, page |-> Page("IndexError", generr, "None", None)]
    ELSE
    LET s1  == Display(s, e)
        sel == s1.answers[s.idx]
    IN
    IF e.kind = "prev" /\ ~PrevDisabled(s.idx)
    THEN Script([s1 EXCEPT !.idx = @ - 1], NoEvent, f, gen)
    ELSE IF e.kind = "next" /\ ~NextDisabled(s.idx)
    THEN Script([s1 EXCEPT !.idx = @ + 1], NoEvent, f, gen)
    ELSE IF e.kind = "finish"
    THEN [s |-> s1,
          page |-> Page("question", generr, sel,
                        Some(grade(Val(s.exam), s1.answers)))]
    ELSE [s |-> s1, page |-> Page("question", generr, sel, None)]

(***************************************************************************)
(* Actions: one user event and the script runs it causes.                  *)
(***************************************************************************)
Session == [exam |-> exam, idx |-> idx, answers |-> answers]

\* history: the event handled, the cursor and the number of recorded answers
\* it found
Did(e) == [kind |-> e.kind, key |-> e.key, from |-> idx,
           had |-> Cardinality(DOMAIN answers)]

\* history: the run that rendered p stored a new exam (line 97) or removed
\* it (line 74)
Stored(e, gen, p) ==
    /\ p.view # "loaderror"
    /\ e.kind = "reset" \/ (e.kind = "generate" /\ gen.ok)

\* history: the question on the page a run rendered.  (The first run of a
\* navigation click displays the question the page already showed.)
Shown(p, i) == IF p.view = "question" THEN {i} ELSE {}

Step(e, gen) ==
    LET r == Script(Session, e, csv, gen)
    IN  /\ exam' = r.s.exam
        /\ idx' = r.s.idx
        /\ answers' = r.s.answers
        /\ page' = r.page
        /\ last' = Did(e)
        /\ csv' = csv
        /\ visited' = (IF Stored(e, gen, r.page) THEN {} ELSE visited)
                          \cup Shown(r.page, r.s.idx)

\* the buttons of lines 95 and 105 are on the page
TopShown == page.view # "loaderror"
\* the radio and the buttons of lines 132-142 are on the page
QuestionShown == page.view = "question"

Generate ==
    /\ TopShown
    /\ \E gen \in GenTable[csv] : Step(Event("generate"), gen)

Reset ==
    /\ TopShown
    /\ Step(Event("reset"), NoGen)

\* the questions on which the model lets the user pick an option
Selectable(i) == i < MaxSelIdx \/ i = EXAM_SIZE - 1

SelectAnswer ==
    /\ QuestionShown
    /\ Selectable(idx)
    /\ \E key \in Range(keys) :
          Step([kind |-> "select", key |-> key], NoGen)

\* A disabled button takes no click: no script run, nothing changes.
Previous ==
    /\ QuestionShown
    /\ IF PrevDisabled(idx)
       THEN UNCHANGED vars
       ELSE Step(Event("prev"), NoGen)

Siguiente ==
    /\ QuestionShown
    /\ IF NextDisabled(idx)
       THEN UNCHANGED vars
       ELSE Step(Event("next"), NoGen)

Finish ==
    /\ QuestionShown
    /\ Step(Event("finish"), NoGen)

\* the user reruns the script (Streamlit's Rerun command): no widget event
Rerun ==
    /\ Step(NoEvent, NoGen)

\* preguntas.csv is replaced on disk; the script reads it again at every run
EditFile ==
    /\ \E f \in Files \ {csv} : csv' = f
    /\ last' = Did(Event("edit"))
    /\ UNCHANGED <<exam, idx, answers, page, visited>>

\* the same, among the files of LoadFiles, early in an exam
EditLoad ==
    /\ Cardinality(DOMAIN answers) <= MaxEditHad
    /\ \E f \in LoadFiles \ {csv} : csv' = f
    /\ last' = Did(Event("edit"))
    /\ UNCHANGED <<exam, idx, answers, page, visited>>

\* a new session: ensure_state, then the first run of the script
FirstRun(f) == Script(ensure_state, NoEvent, f, NoGen)

InitOn(F) ==
    /\ csv \in F
    /\ exam = FirstRun(csv).s.exam
    /\ idx = FirstRun(csv).s.idx
    /\ answers = FirstRun(csv).s.answers
    /\ page = FirstRun(csv).page
    /\ last = [kind |-> "rerun", key |-> "None", from |-> 0, had |-> 0]
    /\ visited = Shown(page, idx)

Init == InitOn(Files)

Next ==
    \/ Generate
    \/ Reset
    \/ SelectAnswer
    \/ Previous
    \/ Siguiente
    \/ Finish
    \/ Rerun
    \/ EditFile

Spec == Init /\ [][Next]_vars

\* generate_exam alone, over the banks of GenFiles
InitGen == InitOn(GenFiles)

NextGen ==
    \/ Generate
    \/ Reset
    \/ Rerun

SpecGen == InitGen /\ [][NextGen]_vars

\* load_questions over the files of LoadFiles, replaced while a session runs
InitLoad == InitOn(LoadFiles)

NextLoad ==
    \/ Generate
    \/ Reset
    \/ SelectAnswer
    \/ Previous
    \/ Siguiente
    \/ Finish
    \/ Rerun
    \/ EditLoad

SpecLoad == InitLoad /\ [][NextLoad]_vars

(***************************************************************************)
(* Properties.                                                             *)
(***************************************************************************)
\* the topics of the rows that load_questions returns for f meet the quotas
MeetsQuota(f) ==
    /\ Loaded[f].ok
    /\ \A t \in DOMAIN QuotaTable :
          Cardinality({i \in DOMAIN Loaded[f].df :
                          Loaded[f].df[i].tema = str(t)}) >= QuotaTable[t]

\* the last run went through the Generar handler and generate_exam returned
GenerateSucceeded ==
    last.kind = "generate" /\ page.view # "loaderror" /\ ~page.generr

\* the last run went through the Generar handler and generate_exam raised
GenerateFailed ==
    last.kind = "generate" /\ page.view # "loaderror" /\ page.generr

\* C1: on a bank with at least the quota of rows in every topic, Generar
\* succeeds, and every exam has exactly 20 records, of which exactly
\* quota(t) are tagged with topic t.
C1_QuotaCounts ==
    /\ (last.kind = "generate" /\ MeetsQuota(csv)) =>
           (~page.generr /\ ~IsNone(exam))
    /\ ~IsNone(exam) =>
           /\ Len(Val(exam)) = 20
           /\ \A t \in DOMAIN QuotaTable :
                 Cardinality({i \in DOMAIN Val(exam) : Val(exam)[i].tema = t})
                     = QuotaTable[t]

\* an exam was generated from a bank that has a row more than the quotas
C1_Witness ==
    /\ last.kind = "generate"
    /\ ~IsNone(exam)
    /\ Len(csv.rows) > 20
    /\ MeetsQuota(csv)

\* C2: no two records of an exam come from the same row of the bank.
C2_NoDuplicateRows ==
    ~IsNone(exam) =>
        \A i, j \in DOMAIN Val(exam) :
            i # j => Val(exam)[i].row # Val(exam)[j].row

\* an exam drawn from a 21-row bank that leaves out the bank's first row
C2_Witness ==
    /\ ~IsNone(exam)
    /\ Len(csv.rows) = 21
    /\ \A i \in DOMAIN Val(exam) : Val(exam)[i].row # 0
    /\ Cardinality({Val(exam)[i].row : i \in DOMAIN Val(exam)}) = 20

\* C3 as stated: after a successful Generar the session has an exam, the
\* cursor is 0 and the answers dict is empty.
C3_Original ==
    GenerateSucceeded =>
        (~IsNone(exam) /\ idx = 0 /\ answers = EmptyDict)

\* C3 amended: after a successful Generar the session has an exam, the cursor
\* is 0 and the answers dict holds exactly the preselected A of question 0,
\* recorded when the rerun displays it; no earlier answer survives.
C3_Amended ==
    GenerateSucceeded =>
        /\ ~IsNone(exam)
        /\ idx = 0
        /\ answers = (0 :> "A")
        /\ page.view = "question"

\* Generar succeeded on a session that was at a later question and had
\* several answers recorded
C3_Witness ==
    /\ GenerateSucceeded
    /\ last.from > 0
    /\ last.had > 1
    /\ ~IsNone(exam)

\* C4: a run in which generate_exam raises leaves exam, idx and answers as
\* they were.
C4_FailedGenerateFrame ==
    [][GenerateFailed' => UNCHANGED <<exam, idx, answers>>]_vars

\* Generar failed on a session with an exam, at a later question, with an
\* answer the user picked
C4_Witness ==
    /\ GenerateFailed
    /\ ~IsNone(exam)
    /\ idx > 0
    /\ Get(answers, 0) = "B"

\* C5: after a run that handles Reiniciar the exam is absent, the cursor is
\* 0 and the answers dict is empty.
C5_Reset ==
    (last.kind = "reset" /\ page.view # "loaderror") =>
        (IsNone(exam) /\ idx = 0 /\ answers = EmptyDict /\ page.view = "info")

\* Reiniciar was handled on a session at a later question with several
\* answers recorded
C5_Witness ==
    /\ last.kind = "reset"
    /\ page.view = "info"
    /\ last.from > 0
    /\ last.had > 1

\* C6: whenever an exam is present, 0 <= idx < len(exam).
C6_CursorInRange ==
    ~IsNone(exam) => (0 <= idx /\ idx < Len(Val(exam)))

\* Siguiente brought the cursor to the last question of the exam
C6_Witness ==
    /\ ~IsNone(exam)
    /\ last.kind = "next"
    /\ page.view = "question"
    /\ idx = Len(Val(exam)) - 1

\* C7: a run that handles Siguiente started at a cursor below 19 and ends at
\* that cursor plus 1; a run that handles Anterior started at a cursor above 0
\* and ends at that cursor minus 1.  (At 19 and at 0 the button is disabled:
\* no run handles it and nothing changes.)
C7_Navigation ==
    page.view # "loaderror" =>
        /\ last.kind = "next" =>
              (last.from < 19 /\ idx = last.from + 1)
        /\ last.kind = "prev" =>
              (last.from > 0 /\ idx = last.from - 1)

\* Anterior brought the cursor from question 1 to question 0, where it is
\* disabled
C7_Witness ==
    /\ last.kind = "prev"
    /\ page.view = "question"
    /\ last.from = 1
    /\ idx = 0
    /\ PrevDisabled(idx)

\* C8: a run that handles Siguiente or Anterior keeps every recorded answer,
\* and when it arrives at a question that has a recorded answer, the radio
\* shows that answer as selected.
C8_Persistence ==
    [][(last'.kind \in {"next", "prev"} /\ page'.view = "question") =>
          /\ \A i \in DOMAIN answers : Get(answers', i) = answers[i]
          /\ idx' \in DOMAIN answers => page'.sel = answers[idx']]_vars

\* back at question 0 through Anterior, with the B picked there before
\* leaving still recorded and shown
C8_Witness ==
    /\ last.kind = "prev"
    /\ page.view = "question"
    /\ idx = 0
    /\ Get(answers, 0) = "B"
    /\ page.sel = "B"

\* C9: a run that handles the pick of key sets answers[idx] = key and leaves
\* idx, the exam and every other recorded answer as they were; picking the
\* recorded key leaves the session as it was.
C9_SelectFrame ==
    [][(last'.kind = "select" /\ page'.view = "question") =>
          /\ answers' = Put(answers, idx, last'.key)
          /\ idx' = idx
          /\ exam' = exam
          /\ Get(answers, idx) = last'.key => answers' = answers]_vars

\* C was picked at the last question, with all twenty answers recorded
C9_Witness ==
    /\ last.kind = "select"
    /\ last.key = "C"
    /\ page.view = "question"
    /\ idx = 19
    /\ Get(answers, idx) = "C"
    /\ Cardinality(DOMAIN answers) = 20

\* C10: a run that handles Finalizar leaves exam, idx and answers as they
\* were, and when the page already showed a result (Finalizar was the run
\* before) it shows the same result again.
C10_FinishPure ==
    [][(last'.kind = "finish" /\ page'.view = "question") =>
          /\ UNCHANGED <<exam, idx, answers>>
          /\ ~IsNone(page'.result)
          /\ ~IsNone(page.result) => page'.result = page.result]_vars

\* Finalizar graded an exam with right and wrong answers, one of them picked
C10_Witness ==
    /\ last.kind = "finish"
    /\ ~IsNone(page.result)
    /\ Val(page.result).correct > 0
    /\ Val(page.result).wrong > 0
    /\ Get(answers, 0) = "C"

\* what a run that handles Finalizar computes in the current session: the
\* question at idx is displayed (lines 123-127), then the handler grades
FinishOf(s) ==
    LET s1 == Display(s, Event("finish"))
    IN  grade(Val(s.exam), s1.answers)

FinishResult == FinishOf(Session)

\* the same in the session a step leaves
FinishResultAfter ==
    FinishOf([exam |-> exam', idx |-> idx', answers |-> answers'])

\* a run that handled Siguiente, Anterior or Finalizar, from a page showing a
\* question to a page showing a question
NavOrFinish ==
    /\ QuestionShown
    /\ last'.kind \in {"next", "prev", "finish"}
    /\ page'.view = "question"

\* C11 as stated: Finalizar computes the same result before and after any
\* run that handles Siguiente, Anterior or Finalizar, so any two Finalizar
\* computations separated only by such runs agree.
C11_Original ==
    [][NavOrFinish =>
          /\ FinishResultAfter = FinishResult
          /\ last'.kind = "finish" => page'.result = Some(FinishResult)]_vars

\* C11 amended: Finalizar computes the same result before and after any run
\* that handles Finalizar, or Siguiente or Anterior arriving at a question
\* that already has a recorded answer.
C11_Amended ==
    [][(NavOrFinish /\ idx' \in DOMAIN answers) =>
          /\ FinishResultAfter = FinishResult
          /\ last'.kind = "finish" => page'.result = Some(FinishResult)]_vars

\* Finalizar handled back at question 0, after the user picked B there and
\* walked on to later questions
C11_Witness ==
    /\ last.kind = "finish"
    /\ ~IsNone(page.result)
    /\ idx = 0
    /\ Get(answers, 0) = "B"
    /\ Cardinality(DOMAIN answers) > 2

\* the dict d without the entries whose index is outside D
Restrict(d, D) == [i \in DOMAIN d \cap D |-> d[i]]

\* answers dicts on which the grading is examined in a state: the stored one,
\* the empty one, and the stored one without question 0 or without the
\* question at the cursor
Graded ==
    {answers, EmptyDict,
     Restrict(answers, DOMAIN answers \ {0}),
     Restrict(answers, DOMAIN answers \ {idx})}

\* the indices at which ans records the correct key of ex
Hits(ex, ans) ==
    {i \in 0..(Len(ex) - 1) : i \in DOMAIN ans /\ ans[i] = ex[i + 1].correcta}

\* C12: whenever a Finalizar run has shown a result, for the stored exam and
\* each of the answers dicts above (partial and empty ones included),
\* correct + wrong = len(exam), correct is the number of indices whose recorded answer is the correct key, and the verdict is
\* APROBADO exactly when correct >= 16; the result a Finalizar run shows is
\* this grading of the stored answers.
C12_Grading ==
    ~IsNone(page.result) =>
        /\ \A ans \in Graded :
              LET g == grade(Val(exam), ans)
              IN  /\ g.correct + g.wrong = Len(Val(exam))
                  /\ g.correct = Cardinality(Hits(Val(exam), ans))
                  /\ (g.verdict = "APROBADO") <=> (g.correct >= 16)
                  /\ g.verdict \in {"APROBADO", "SUSPENSO"}
        /\ Val(page.result) = grade(Val(exam), answers)

\* Finalizar graded twenty recorded answers of which exactly 16 are correct:
\* the lowest passing score
C12_Witness ==
    /\ last.kind = "finish"
    /\ ~IsNone(page.result)
    /\ Val(page.result).correct = 16
    /\ Val(page.result).wrong = 4
    /\ Val(page.result).verdict = "APROBADO"

\* C13: whenever a Finalizar run has shown a result, in the grading of the
\* stored exam on each of the answers dicts above, an index without an entry
\* is counted wrong and listed with the answer None; the review lists, in ascending exam order, exactly the indices whose
\* recorded answer is not the correct key, each with the recorded answer and
\* the correct key, so its length is the number of wrong answers.
C13_Review ==
    ~IsNone(page.result) =>
        \A ans \in Graded :
            LET ex == Val(exam)
                g  == grade(ex, ans)
                rv == g.review
            IN  /\ Len(rv) = g.wrong
                /\ {rv[j].num - 1 : j \in DOMAIN rv}
                       = (0..(Len(ex) - 1)) \ Hits(ex, ans)
                /\ \A j \in DOMAIN rv :
                      /\ j > 1 => rv[j - 1].num < rv[j].num
                      /\ rv[j].tu = Get(ans, rv[j].num - 1)
                      /\ rv[j].tu # rv[j].correcta
                      /\ rv[j].correcta = ex[rv[j].num].correcta
                /\ \A i \in (0..(Len(ex) - 1)) \ DOMAIN ans :
                      \E j \in DOMAIN rv : rv[j].num = i + 1 /\ rv[j].tu = "None"

\* Finalizar graded a partial answers dict: the review lists both a question
\* answered wrongly and questions that have no recorded answer
C13_Witness ==
    /\ last.kind = "finish"
    /\ ~IsNone(page.result)
    /\ Cardinality(DOMAIN answers) < 20
    /\ \E j \in DOMAIN Val(page.result).review :
          Val(page.result).review[j].tu = "None"
    /\ \E j \in DOMAIN Val(page.result).review :
          Val(page.result).review[j].tu = "B"
    /\ Val(page.result).correct > 0

\* C14: a script run that finds a file on which load_questions raises stops
\* at line 89: whatever button or option the user acted on, exam, idx and
\* answers stay as they were and the page shows the load error only; so no
\* new exam is stored while the load fails.
C14_LoadFailure ==
    [][~Loaded[csv'].ok =>
          /\ UNCHANGED <<exam, idx, answers>>
          /\ last'.kind # "edit" => page' = Page("loaderror", FALSE, "None", None)]_vars

\* Generar was clicked on a session with an exam, at question 1, with a picked
\* answer, after the file was replaced by one that does not load
C14_Witness ==
    /\ ~Loaded[csv].ok
    /\ page.view = "loaderror"
    /\ last.kind = "generate"
    /\ ~IsNone(exam)
    /\ idx = 1
    /\ Get(answers, 0) = "B"

\* a source row meets the constraints on its six fields
ValidRow(r) ==
    /\ strip(r.tema) \in {<<"1">>, <<"2">>, <<"3">>, <<"4">>, <<"5">>,
                          <<"6">>, <<"7">>}
    /\ upper(strip(r.correcta)) \in {<<"A">>, <<"B">>, <<"C">>}
    /\ strip(r.enunciado) # <<>>
    /\ strip(r.A) # <<>>
    /\ strip(r.B) # <<>>
    /\ strip(r.C) # <<>>

\* the files of the model that have the six columns and valid rows only
ValidFiles ==
    {f \in AllFiles :
        /\ f.exists
        /\ {"tema", "enunciado", "A", "B", "C", "correcta"} \subseteq f.columns
        /\ \A i \in DOMAIN f.rows : ValidRow(f.rows[i])}

RowsOf(f, t) ==
    Cardinality({i \in DOMAIN Loaded[f].df : Loaded[f].df[i].tema = str(t)})

\* the topics of which the bank loaded from f has fewer rows than the quota
Short(f) == {t \in DOMAIN QuotaTable : RowsOf(f, t) < QuotaTable[t]}

\* C16: on a loaded bank generate_exam raises exactly when some topic has
\* fewer rows than its quota; the error then names the first such topic, its
\* quota and the rows available, the shortfall being their difference; and
\* the Generar run shows the error exactly in that case.
C16_InsufficientPool ==
    Loaded[csv].ok =>
        LET short == Short(csv)
            first == IF short = {} THEN 0 ELSE SetMin(short)
            have  == IF short = {} THEN 0 ELSE RowsOf(csv, first)
        IN  /\ \A gen \in GenTable[csv] :
                  /\ gen.ok <=> short = {}
                  /\ ~gen.ok =>
                        /\ gen.topic = first
                        /\ gen.need = QuotaTable[first]
                        /\ gen.have = have
                        /\ gen.need - gen.have > 0
                        /\ gen.exam = <<>>
            /\ last.kind = "generate" => (page.generr <=> short # {})

\* Generar failed on a bank that has one row of topic 3 where two are needed
C16_Witness ==
    /\ GenerateFailed
    /\ Short(csv) = {3}
    /\ RowsOf(csv, 3) = 1
    /\ \E gen \in GenTable[csv] :
          ~gen.ok /\ gen.topic = 3 /\ gen.need - gen.have = 1

\* C17: a run that handles an option pick, Siguiente, Anterior or Finalizar
\* (or no event) leaves the stored exam as it was; the exam changes only in
\* a run that handles Reiniciar, which removes it, or in a Generar run in
\* which generate_exam returns, which stores one of its outcomes whole.
C17_ExamFrame ==
    [][/\ last'.kind \in {"select", "next", "prev", "finish", "rerun", "edit"}
             => exam' = exam
       /\ exam' # exam =>
             \/ last'.kind = "reset" /\ IsNone(exam')
             \/ /\ last'.kind = "generate"
                /\ ~page'.generr
                /\ \E gen \in GenTable[csv] : gen.ok /\ exam' = Some(gen.exam)]_vars

\* Finalizar handled at the last question, after picks at the first and the
\* last question, with the exam still one that generate_exam returns
C17_Witness ==
    /\ last.kind = "finish"
    /\ idx = 19
    /\ Get(answers, 0) = "C"
    /\ Get(answers, 19) = "B"
    /\ \E gen \in GenTable[Minimal] : gen.ok /\ exam = Some(gen.exam)

\* the indices of the stored exam that were not displayed since it was stored
Unvisited == (0..(Len(Val(exam)) - 1)) \ visited

\* the indices the review of a shown result lists
Missed == {Val(page.result).review[j].num - 1 :
              j \in DOMAIN Val(page.result).review}

\* C18 as stated: in the result of a Finalizar run, a question that was never
\* displayed is counted correct when its correct key is A and wrong otherwise.
C18_Original ==
    (last.kind = "finish" /\ ~IsNone(page.result)) =>
        \A i \in Unvisited :
            i \in Missed <=> Val(exam)[i + 1].correcta # "A"

\* C18 amended: in the result of a Finalizar run, a question that was never
\* displayed has no recorded answer and is counted wrong whatever its correct
\* key; the review lists it with the answer None.
C18_Amended ==
    (last.kind = "finish" /\ ~IsNone(page.result)) =>
        /\ \A i \in Unvisited :
              /\ i \notin DOMAIN answers
              /\ \E j \in DOMAIN Val(page.result).review :
                    /\ Val(page.result).review[j].num = i + 1
                    /\ Val(page.result).review[j].tu = "None"
        /\ Val(page.result).wrong >= Cardinality(Unvisited)

\* Finalizar graded an exam in which a question with the correct key A was
\* never displayed, while displayed ones were counted correct
C18_Witness ==
    /\ last.kind = "finish"
    /\ ~IsNone(page.result)
    /\ \E i \in Unvisited : Val(exam)[i + 1].correcta = "A"
    /\ Cardinality(visited) > 1
    /\ Val(page.result).correct > 1

\* a run that handled Siguiente or Anterior, or a Generar run in which
\* generate_exam returned, and arrived at a question without a recorded
\* answer
ArrivedUnanswered ==
    /\ page'.view = "question"
    /\ \/ last'.kind = "generate" /\ ~page'.generr
       \/ last'.kind \in {"next", "prev"} /\ idx' \notin DOMAIN answers

\* C19: a run that arrives through Generar, Siguiente or Anterior at a
\* question without a recorded answer records A for it and shows A selected,
\* no option being picked; hence after every run every question displayed
\* since the exam was stored has a recorded answer among A, B, C, a displayed
\* question on which no option was picked has A, and Finalizar counts such a
\* question correct exactly when its correct key is A.
C19_DefaultRecorded ==
    [][page'.view = "question" =>
          /\ ArrivedUnanswered =>
                (Get(answers', idx') = "A" /\ page'.sel = "A")
          /\ \A i \in visited' :
                /\ Get(answers', i) \in Range(keys)
                /\ ~Selectable(i) => Get(answers', i) = "A"
                /\ (last'.kind = "finish" /\ ~Selectable(i)) =>
                      ((\E j \in DOMAIN Val(page'.result).review :
                           Val(page'.result).review[j].num = i + 1)
                       <=> Val(exam')[i + 1].correcta # "A")]_vars

\* Siguiente arrived at question 3, which had no recorded answer, and A is
\* now recorded and shown for it
C19_Witness ==
    /\ last.kind = "next"
    /\ page.view = "question"
    /\ idx = 3
    /\ last.from = 2
    /\ last.had = 3
    /\ Get(answers, 3) = "A"
    /\ page.sel = "A"
    /\ visited = 0..3

\* C20: whenever the page shows a question, the indices of the answers dict
\* are 0..m for some m with idx <= m <= 19, they are the indices displayed
\* since the exam was stored, and every recorded value is A, B or C.
C20_AnswersPrefix ==
    page.view = "question" =>
        /\ \E m \in idx..19 : DOMAIN answers = 0..m
        /\ DOMAIN answers = visited
        /\ \A i \in DOMAIN answers : answers[i] \in {"A", "B", "C"}

\* the page shows question 1 after the user walked to question 4 and back:
\* five recorded answers, one of them picked
C20_Witness ==
    /\ page.view = "question"
    /\ idx = 1
    /\ DOMAIN answers = 0..4
    /\ visited = 0..4
    /\ Get(answers, 0) = "B"
    /\ last.kind = "prev"

====
